---- MODULE Spec2Model ----
(***************************************************************************)
(* TonyOS dashboard backend: the task scoring function (computeTonyScore), *)
(* the row projection (mapTaskRow) and the task routes of the second       *)
(* ("industry-grade") server of src/index.js, over one Postgres table.     *)
(*                                                                         *)
(* Times are instants in milliseconds, as Date.getTime() gives them.       *)
(* JavaScript values that may be absent are tagged records:                *)
(*   numbers     [t |-> "number" | "NaN" | "null" | "undefined", v |-> Int]*)
(*   dates       [t |-> "date" | "invalid" | "empty" | "null" |            *)
(*                      "undefined", v |-> Int]   (v: the instant, in ms)  *)
(*   texts       [t |-> "string" | "null" | "undefined", s |-> chars]      *)
(* A text is a tuple of one-character strings, so that trim(),             *)
(* toLowerCase(), includes() and the database's text ordering are          *)
(* computed, not assumed.                                                  *)
(***************************************************************************)
EXTENDS Integers, Sequences, FiniteSets, TLC

VARIABLES
    now,      \* the wall clock (ms), read by new Date() and by NOW()
    tasks,    \* the rows of table tasks, in insertion order
    nextId,   \* the SERIAL sequence behind tasks.id
    resp,     \* the last HTTP response sent
    arg,      \* the task record handed to computeTonyScore (scoring harness)
    ret,      \* what computeTonyScore returned for arg (scoring harness)
    server,   \* the program that is running: "v2" is the second server of
              \* index.js, "v1" its first, "p" the server of unnamed/part_000
    dump      \* the brain-dump request in flight, or the last one finished

vars == <<now, tasks, nextId, resp, arg, ret, server, dump>>

----------------------------------------------------------------------------
(* JavaScript values *)

Num(n) == [t |-> "number", v |-> n]

NaN == [t |-> "NaN", v |-> 0]

NullNum == [t |-> "null", v |-> 0]

UndefNum == [t |-> "undefined", v |-> 0]

DateAt(ms) == [t |-> "date", v |-> ms]

InvalidDate == [t |-> "invalid", v |-> 0]

EmptyDate == [t |-> "empty", v |-> 0]

NullDate == [t |-> "null", v |-> 0]

UndefDate == [t |-> "undefined", v |-> 0]

Str(chars) == [t |-> "string", s |-> chars]

NullText == [t |-> "null", s |-> <<>>]

UndefText == [t |-> "undefined", s |-> <<>>]

\* typeof x === "number" (true of NaN as well)
IsNumber(x) == x.t \in {"number", "NaN"}

\* x ?? d
Coalesce(x, d) == IF x.t \in {"null", "undefined"} THEN d ELSE x

\* the truthiness of a text: null, undefined and "" are falsy
TruthyText(x) == x.t = "string" /\ Len(x.s) > 0

\* the truthiness of a due_date value: null, undefined and "" are falsy; a
\* Date object and a non-empty string (parseable or not) are truthy
TruthyDate(d) == d.t \in {"date", "invalid"}

----------------------------------------------------------------------------
(* Text *)

Upper == <<"A", "B", "C", "D", "E", "F", "G", "H", "I", "J", "K", "L", "M",
           "N", "O", "P", "Q", "R", "S", "T", "U", "V", "W", "X", "Y", "Z">>

Lower == <<"a", "b", "c", "d", "e", "f", "g", "h", "i", "j", "k", "l", "m",
           "n", "o", "p", "q", "r", "s", "t", "u", "v", "w", "x", "y", "z">>

\* String.prototype.toLowerCase, one character
LowerChar(c) ==
    IF \E i \in 1..26 : Upper[i] = c
    THEN Lower[CHOOSE i \in 1..26 : Upper[i] = c]
    ELSE c

\* String.prototype.toLowerCase
ToLowerCase(s) == [i \in 1..Len(s) |-> LowerChar(s[i])]

\* String.prototype.includes
Includes(s, w) ==
    \E i \in 0..(Len(s) - Len(w)) : \A j \in 1..Len(w) : s[i + j] = w[j]

\* String.prototype.trim (the texts of the model hold no white space but " ")
Trim(s) ==
    LET idx == {i \in 1..Len(s) : s[i] # " "}
    IN  IF idx = {} THEN <<>>
        ELSE LET lo == CHOOSE i \in idx : \A j \in idx : i <= j
                 hi == CHOOSE i \in idx : \A j \in idx : j <= i
             IN  SubSeq(s, lo, hi)

KwTax == <<"t", "a", "x">>

KwAccounting == <<"a", "c", "c", "o", "u", "n", "t", "i", "n", "g">>

KwLegal == <<"l", "e", "g", "a", "l">>

KwCall == <<"c", "a", "l", "l">>

KwEmail == <<"e", "m", "a", "i", "l">>

----------------------------------------------------------------------------
(* Scoring *)

MsPerHour == 1000 * 60 * 60

\* clampPriority without its upper limit (if (p > 5) return 5 left out)
clampPriorityNoUpper(p) ==
    IF p.t = "NaN" THEN 3
    ELSE IF p.v < 1 THEN 1
    ELSE p.v

\* clampPriority(p): every comparison with NaN is false
clampPriority(p) ==
    IF p.t = "NaN" THEN 3
    ELSE IF p.v < 1 THEN 1
    ELSE IF p.v > 5 THEN 5
    ELSE p.v

\* leverage testing task.leverage_score for truthiness instead of its type,
\* so that an explicit 0 is inferred over
LeverageFalsyZero(task) ==
    IF IsNumber(task.leverage_score) /\ task.leverage_score.v # 0
    THEN task.leverage_score.v
    ELSE 6 - clampPriority(Coalesce(task.priority, Num(3)))

\* the leverage of computeTonyScore
Leverage(task) ==
    IF IsNumber(task.leverage_score)
    THEN task.leverage_score.v
    ELSE 6 - clampPriority(Coalesce(task.priority, Num(3)))

\* the due-date scale with the 24-hour limit exclusive (< for <=)
DueUrgencyExclusive(diffMs) ==
    IF diffMs < 0 THEN 5
    ELSE IF diffMs < 24 * MsPerHour THEN 4
    ELSE IF diffMs <= 72 * MsPerHour THEN 3
    ELSE IF diffMs <= 24 * 7 * MsPerHour THEN 2
    ELSE 1

\* the urgency computeTonyScore gives a task whose due_date is a valid instant
DueUrgency(diffMs) ==
    IF diffMs < 0 THEN 5
    ELSE IF diffMs <= 24 * MsPerHour THEN 4
    ELSE IF diffMs <= 72 * MsPerHour THEN 3
    ELSE IF diffMs <= 24 * 7 * MsPerHour THEN 2
    ELSE 1

\* urgency with the this_week branch left out
UrgencyNoWeek(task, nowMs) ==
    IF TruthyDate(task.due_date)
    THEN IF task.due_date.t = "date"
         THEN DueUrgency(task.due_date.v - nowMs)
         ELSE 1
    ELSE IF task.bucket = "today" THEN 3
    ELSE 1

\* the urgency of computeTonyScore: the bucket is looked at only in the else
\* branch of if (task.due_date)
Urgency(task, nowMs) ==
    IF TruthyDate(task.due_date)
    THEN IF task.due_date.t = "date"
         THEN DueUrgency(task.due_date.v - nowMs)
         ELSE 1
    ELSE IF task.bucket = "today" THEN 3
    ELSE IF task.bucket = "this_week" THEN 2
    ELSE 1

\* risk with the upper threshold off by one (urgency > 4 for urgency >= 4)
RiskOffByOne(task, urgency) ==
    IF IsNumber(task.risk_score)
    THEN task.risk_score.v
    ELSE IF urgency > 4 THEN 4
    ELSE IF urgency = 3 THEN 3
    ELSE 2

\* the risk of computeTonyScore, from the urgency it computed
Risk(task, urgency) ==
    IF IsNumber(task.risk_score)
    THEN task.risk_score.v
    ELSE IF urgency >= 4 THEN 4
    ELSE IF urgency = 3 THEN 3
    ELSE 2

\* friction with the two keyword tests in the other order (call / email
\* looked for before tax / accounting / legal)
FrictionCallFirst(task) ==
    IF IsNumber(task.friction_score)
    THEN task.friction_score.v
    ELSE LET desc == ToLowerCase(IF TruthyText(task.description)
                                 THEN task.description.s ELSE <<>>)
         IN  IF Len(desc) = 0 THEN 2
             ELSE IF Includes(desc, KwCall) \/ Includes(desc, KwEmail) THEN 1
             ELSE IF Includes(desc, KwTax) \/ Includes(desc, KwAccounting)
                     \/ Includes(desc, KwLegal) THEN 3
             ELSE 2

\* the friction of computeTonyScore
Friction(task) ==
    IF IsNumber(task.friction_score)
    THEN task.friction_score.v
    ELSE LET desc == ToLowerCase(IF TruthyText(task.description)
                                 THEN task.description.s ELSE <<>>)
         IN  IF Len(desc) = 0 THEN 2
             ELSE IF Includes(desc, KwTax) \/ Includes(desc, KwAccounting)
                     \/ Includes(desc, KwLegal) THEN 3
             ELSE IF Includes(desc, KwCall) \/ Includes(desc, KwEmail) THEN 1
             ELSE 2

\* the composite of the chat prompt, "leverage + urgency - friction"
TonyScoreNoRisk(leverage, urgency, risk, friction) ==
    leverage + urgency - friction

\* const score = leverage + urgency + risk - friction
TonyScore(leverage, urgency, risk, friction) ==
    leverage + urgency + risk - friction

computeTonyScore(task, nowMs) ==
    LET leverage == Leverage(task)
        urgency  == Urgency(task, nowMs)
        risk     == Risk(task, urgency)
        friction == Friction(task)
    IN  [leverage_score |-> leverage,
         urgency_score  |-> urgency,
         risk_score     |-> risk,
         friction_score |-> friction,
         tony_score     |-> TonyScore(leverage, urgency, risk, friction)]

----------------------------------------------------------------------------
(* Bounds and request inputs of the route model *)

\* rows ever inserted (the SERIAL sequence stops there)
MaxTasks == 2

\* clock steps
MaxTick == 1

TickMs == 100 * MsPerHour

\* the due date requests carry: 150 h after the start of the run
DueInstant == 150 * MsPerHour

\* a due date of 9999-12-31T23:00:00Z, which validateTaskPayload accepts
DueLastDay == 2000000000 + 23 * MsPerHour

TitleOk == <<" ", "P", "a", "y", " ">>

TitleShort == <<" ", "a", "b", " ">>

\* the task record that carries no optional field
BareTask ==
    [priority       |-> UndefNum,
     leverage_score |-> UndefNum,
     urgency_score  |-> UndefNum,
     risk_score     |-> UndefNum,
     friction_score |-> UndefNum,
     due_date       |-> UndefDate,
     bucket         |-> "undefined",
     description    |-> UndefText]

Body(title, bucket, priority, due_date) ==
    [title       |-> title,
     description |-> UndefText,
     area        |-> UndefText,
     bucket      |-> bucket,
     priority    |-> priority,
     due_date    |-> due_date]

\* the request bodies of POST /tasks: three buckets, priorities 1, 3 (by
\* default) and 5, with and without a due date; and bodies that fail
\* validation in each of its four checks
Bodies ==
    {Body(Str(TitleOk), "today", Num(5), UndefDate),
     Body(Str(TitleOk), "this_week", UndefNum, EmptyDate),
     Body(Str(TitleOk), "later", Num(1), NullDate),
     Body(Str(TitleOk), "later", Num(5), DateAt(DueInstant)),
     Body(Str(TitleOk), "later", Num(1), DateAt(DueLastDay)),
     Body(Str(TitleShort), "today", Num(1), UndefDate),
     Body(UndefText, "undefined", UndefNum, UndefDate),
     Body(Str(TitleOk), "backlog", Num(1), UndefDate),
     Body(Str(TitleOk), "today", Num(0), UndefDate),
     Body(Str(TitleOk), "today", NaN, UndefDate),
     Body(Str(TitleOk), "today", Num(1), InvalidDate)}

IdParams == {Num(i) : i \in 1..(MaxTasks + 1)} \cup {NaN}

----------------------------------------------------------------------------
(* The table and the row projection *)

isValidBucket(bucket) == bucket \in {"today", "this_week", "later"}

\* the object literal a handler hands to computeTonyScore, or a row of the
\* table read as one: absent properties are undefined
ScoreInput(priority, due_date, bucket, description, lev, urg, risk, fric) ==
    [priority       |-> priority,
     leverage_score |-> lev,
     urgency_score  |-> urg,
     risk_score     |-> risk,
     friction_score |-> fric,
     due_date       |-> due_date,
     bucket         |-> bucket,
     description    |-> description]

\* a row as computeTonyScore(row) sees it
RowInput(row) ==
    ScoreInput(Num(row.priority), row.due_date, row.bucket, row.description,
               row.leverage_score, row.urgency_score, row.risk_score,
               row.friction_score)

mapTaskRow(row, nowMs) ==
    LET scores == computeTonyScore(RowInput(row), nowMs)
    IN  [id             |-> row.id,
         title          |-> row.title,
         description    |-> row.description,
         area           |-> row.area,
         status         |-> row.status,
         bucket         |-> row.bucket,
         priority       |-> row.priority,
         due_date       |-> row.due_date,
         created_at     |-> row.created_at,
         updated_at     |-> row.updated_at,
         leverage_score |-> scores.leverage_score,
         urgency_score  |-> scores.urgency_score,
         risk_score     |-> scores.risk_score,
         friction_score |-> scores.friction_score,
         score          |-> scores.tony_score]

----------------------------------------------------------------------------
(* ORDER BY status = 'done', bucket, priority,                             *)
(*          COALESCE(due_date, '9999-12-31'::timestamptz), created_at      *)

\* the characters of the bucket names in code-point order
Collation == <<"_", "a", "d", "e", "h", "i", "k", "l", "o", "r", "s", "t",
               "w", "y">>

CharRank(c) == CHOOSE i \in 1..Len(Collation) : Collation[i] = c

BucketText(bucket) ==
    CASE bucket = "today"     -> <<"t", "o", "d", "a", "y">>
      [] bucket = "this_week" -> <<"t", "h", "i", "s", "_", "w", "e", "e", "k">>
      [] bucket = "later"     -> <<"l", "a", "t", "e", "r">>

\* a < b as TEXT values: at the first place they differ, or a is a proper
\* prefix of b
TextLess(a, b) ==
    \E i \in 1..(Len(b)) :
        /\ \A j \in 1..(i - 1) : j <= Len(a) /\ a[j] = b[j]
        /\ \/ i = Len(a) + 1
           \/ i <= Len(a) /\ CharRank(a[i]) < CharRank(b[i])

\* '9999-12-31'::timestamptz (midnight), on the model's time axis: later than
\* every instant the clock reaches, but an instant like any other, which a
\* due_date may equal or pass
FarFuture == 2000000000

\* COALESCE(due_date, '9999-12-31'::timestamptz)
DueKey(row) == IF row.due_date.t = "date" THEN row.due_date.v ELSE FarFuture

\* the sort key with the status misspelt (status = 'complete'): never true
DoneKeyMisspelt(row) == IF row.status = "complete" THEN 1 ELSE 0

\* status = 'done' as a sort key: false sorts before true
DoneKey(row) == IF row.status = "done" THEN 1 ELSE 0

\* a sorts strictly before b under the ORDER BY list
OrderBefore(a, b) ==
    \/ DoneKey(a) < DoneKey(b)
    \/ /\ DoneKey(a) = DoneKey(b)
       /\ \/ TextLess(BucketText(a.bucket), BucketText(b.bucket))
          \/ /\ a.bucket = b.bucket
             /\ \/ a.priority < b.priority
                \/ /\ a.priority = b.priority
                   /\ \/ DueKey(a) < DueKey(b)
                      \/ /\ DueKey(a) = DueKey(b)
                         /\ a.created_at < b.created_at

IndexPermutations(n) ==
    {f \in [1..n -> 1..n] : \A i, j \in 1..n : i # j => f[i] # f[j]}

\* the row sequences the SELECT may return: every arrangement of the table
\* that the ORDER BY list allows (rows equal in all keys come in any order)
SelectOrdered(rows) ==
    {[i \in 1..Len(rows) |-> rows[f[i]]] : f \in
        {g \in IndexPermutations(Len(rows)) :
            \A i, j \in 1..Len(rows) :
                i < j => ~OrderBefore(rows[g[j]], rows[g[i]])}}

----------------------------------------------------------------------------
(* Request validation and the task routes *)

\* Number(x) of a JSON value: null is 0, a non-numeric value is NaN
ToNumber(x) ==
    CASE x.t = "null"      -> Num(0)
      [] x.t = "undefined" -> NaN
      [] OTHER             -> x

\* validateTaskPayload(body, { partial: false }): the set of errors
validateTaskPayload(body) ==
    (IF ~TruthyText(body.title) \/ Len(Trim(body.title.s)) < 3
     THEN {"title"} ELSE {})
    \cup
    (IF body.bucket # "undefined" /\ ~isValidBucket(body.bucket)
     THEN {"bucket"} ELSE {})
    \cup
    (IF body.priority.t # "undefined"
        /\ LET p == ToNumber(body.priority)
           IN  p.t = "NaN" \/ p.v < 1 \/ p.v > 5
     THEN {"priority"} ELSE {})
    \cup
    (IF body.due_date.t = "invalid" THEN {"due_date"} ELSE {})

Reply(status, kind, body) ==
    [status |-> status, kind |-> kind, body |-> body, at |-> now]

\* the row POST /tasks inserts for a valid body
NewRow(body) ==
    LET title       == Str(Trim(body.title.s))
        description == IF TruthyText(body.description)
                       THEN Str(Trim(body.description.s)) ELSE NullText
        area        == IF TruthyText(body.area)
                       THEN Str(Trim(body.area.s)) ELSE NullText
        bucket      == IF isValidBucket(body.bucket) THEN body.bucket
                       ELSE "later"
        priority    == clampPriority(ToNumber(Coalesce(body.priority, Num(3))))
        dueDate     == IF TruthyDate(body.due_date) THEN body.due_date
                       ELSE NullDate
        scoreObj    == computeTonyScore(
                           ScoreInput(Num(priority), dueDate, bucket,
                                      description, UndefNum, UndefNum,
                                      UndefNum, UndefNum), now)
    IN  [id             |-> nextId,
         title          |-> title,
         description    |-> description,
         area           |-> area,
         status         |-> "open",
         bucket         |-> bucket,
         priority       |-> priority,
         leverage_score |-> Num(scoreObj.leverage_score),
         urgency_score  |-> Num(scoreObj.urgency_score),
         risk_score     |-> Num(scoreObj.risk_score),
         friction_score |-> Num(scoreObj.friction_score),
         due_date       |-> dueDate,
         created_at     |-> now,
         updated_at     |-> now]

\* POST /tasks
PostTask(body) ==
    /\ nextId <= MaxTasks
    /\ IF validateTaskPayload(body) # {}
       THEN /\ resp' = Reply(400, "error", <<>>)
            /\ UNCHANGED <<tasks, nextId>>
       ELSE LET row == NewRow(body)
            IN  /\ tasks' = Append(tasks, row)
                /\ nextId' = nextId + 1
                /\ resp' = Reply(201, "task", <<mapTaskRow(row, now)>>)
    /\ UNCHANGED <<now, arg, ret, server, dump>>

\* GET /tasks
GetTasks ==
    /\ \E rows \in SelectOrdered(tasks) :
          resp' = Reply(200, "list",
                        [i \in 1..Len(rows) |-> mapTaskRow(rows[i], now)])
    /\ UNCHANGED <<now, tasks, nextId, arg, ret, server, dump>>

\* PATCH /tasks/:id/complete that flips the status: a done task is reopened
CompleteTaskToggle(id) ==
    /\ IF id.t # "number"
       THEN /\ resp' = Reply(400, "error", <<>>)
            /\ UNCHANGED tasks
       ELSE IF \A i \in 1..Len(tasks) : tasks[i].id # id.v
       THEN /\ resp' = Reply(404, "error", <<>>)
            /\ UNCHANGED tasks
       ELSE LET i   == CHOOSE k \in 1..Len(tasks) : tasks[k].id = id.v
                row == [tasks[i] EXCEPT
                           !.status = IF @ = "done" THEN "open" ELSE "done",
                           !.updated_at = now]
            IN  /\ tasks' = [tasks EXCEPT ![i] = row]
                /\ resp' = Reply(200, "task", <<mapTaskRow(row, now)>>)
    /\ UNCHANGED <<now, nextId, arg, ret, server, dump>>

\* PATCH /tasks/:id/complete; id is Number(req.params.id)
CompleteTask(id) ==
    /\ IF id.t # "number"
       THEN /\ resp' = Reply(400, "error", <<>>)
            /\ UNCHANGED tasks
       ELSE IF \A i \in 1..Len(tasks) : tasks[i].id # id.v
       THEN /\ resp' = Reply(404, "error", <<>>)
            /\ UNCHANGED tasks
       ELSE LET i   == CHOOSE k \in 1..Len(tasks) : tasks[k].id = id.v
                row == [tasks[i] EXCEPT !.status = "done", !.updated_at = now]
            IN  /\ tasks' = [tasks EXCEPT ![i] = row]
                /\ resp' = Reply(200, "task", <<mapTaskRow(row, now)>>)
    /\ UNCHANGED <<now, nextId, arg, ret, server, dump>>

\* DELETE /tasks/:id
DeleteTask(id) ==
    /\ IF id.t # "number"
       THEN /\ resp' = Reply(400, "error", <<>>)
            /\ UNCHANGED tasks
       ELSE IF \A i \in 1..Len(tasks) : tasks[i].id # id.v
       THEN /\ resp' = Reply(404, "error", <<>>)
            /\ UNCHANGED tasks
       ELSE /\ tasks' = SelectSeq(tasks, LAMBDA r : r.id # id.v)
            /\ resp' = Reply(204, "empty", <<>>)
    /\ UNCHANGED <<now, nextId, arg, ret, server, dump>>

\* time passes
Tick ==
    /\ now < MaxTick * TickMs
    /\ now' = now + TickMs
    /\ UNCHANGED <<tasks, nextId, resp, arg, ret, server, dump>>

\* no brain-dump request has been made
NoDump ==
    [phase |-> "idle", batch |-> <<>>, pos |-> 1, rows |-> <<>>,
     created |-> <<>>, begun |-> 0, defaultBucket |-> "today"]

Init ==
    /\ now = 0
    /\ tasks = <<>>
    /\ nextId = 1
    /\ resp = [status |-> 0, kind |-> "none", body |-> <<>>, at |-> 0]
    /\ arg = BareTask
    /\ ret = <<>>
    /\ server = "v2"
    /\ dump = NoDump

Next ==
    \/ \E body \in Bodies : PostTask(body)
    \/ GetTasks
    \/ \E id \in IdParams : CompleteTask(id)
    \/ \E id \in IdParams : DeleteTask(id)
    \/ Tick

Spec == Init /\ [][Next]_vars

----------------------------------------------------------------------------
(* The scoring harness: computeTonyScore applied to task records drawn from *)
(* bounded sets, at a fixed instant T0; due dates are placed around T0.     *)

MaxScore == 5

PriOver == 1

T0 == 10 * MsPerHour

PriorityInputs ==
    {UndefNum, NullNum, NaN} \cup {Num(p) : p \in (1 - PriOver)..(5 + PriOver)}

ScoreInputs == {UndefNum, NullNum, Num(0), Num(MaxScore)}

DueOffsets ==
    {0 - 1, 0, 24 * MsPerHour, 24 * MsPerHour + 1, 72 * MsPerHour,
     72 * MsPerHour + 1, 24 * 7 * MsPerHour, 24 * 7 * MsPerHour + 1}

DueInputs ==
    {UndefDate, NullDate, EmptyDate, InvalidDate}
        \cup {DateAt(T0 + d) : d \in DueOffsets}

BucketInputs == {"today", "this_week", "later", "backlog", "undefined"}

DescTaxCall == <<"T", "a", "x", " ", "c", "a", "l", "l">>

DescEmail == <<"e", "m", "a", "i", "l", " ", "B", "o", "b">>

DescriptionInputs == {NullText, Str(<<>>), Str(DescTaxCall), Str(DescEmail)}

\* every sub-score explicit, over the whole grid 0..MaxScore
GridArgs ==
    {[BareTask EXCEPT !.leverage_score = Num(l), !.risk_score = Num(r),
                      !.friction_score = Num(f), !.due_date = d]
        : l \in 0..MaxScore, r \in 0..MaxScore, f \in 0..MaxScore,
          d \in {NullDate} \cup {DateAt(T0 + o) : o \in DueOffsets}}

\* optional fields present or absent, in every combination
MixedArgs ==
    {[priority       |-> p,
      leverage_score |-> l,
      urgency_score  |-> u,
      risk_score     |-> r,
      friction_score |-> f,
      due_date       |-> d,
      bucket         |-> b,
      description    |-> t]
        : p \in PriorityInputs,
          l \in {UndefNum, Num(0), Num(MaxScore)},
          u \in {UndefNum, Num(0)},
          r \in {NullNum, Num(0), Num(MaxScore)},
          f \in {NullNum, Num(0), Num(MaxScore)},
          d \in DueInputs \ {UndefDate, EmptyDate},
          b \in BucketInputs,
          t \in DescriptionInputs}

EdgeArgs ==
    {[BareTask EXCEPT !.due_date = d, !.bucket = b, !.leverage_score = l]
        : d \in DueInputs, b \in BucketInputs, l \in ScoreInputs}

DescLegal == <<"L", "E", "G", "A", "L">>

DescAccounting == <<"a", "c", "c", "o", "u", "n", "t", "i", "n", "g">>

DescTaxi == <<"t", "a", "x", "i">>

DescRecall == <<"R", "e", "c", "a", "l", "l">>

DescLoan == <<"c", "a", "l", "l", " ", "a", "b", "o", "u", "t", " ", "l",
              "o", "a", "n">>

DescEmailLegal == <<"e", "m", "a", "i", "l", " ", "l", "e", "g", "a", "l">>

DescMilk == <<"b", "u", "y", " ", "m", "i", "l", "k">>

\* descriptions with a keyword of either category, of both, of none, in
\* either case, alone and inside a longer word
FrictionDescriptions ==
    {UndefText, NullText, Str(<<>>), Str(<<" ">>), Str(DescTaxCall),
     Str(DescEmail), Str(DescLegal), Str(DescAccounting), Str(DescTaxi),
     Str(DescRecall), Str(DescLoan), Str(DescEmailLegal), Str(DescMilk)}

FrictionArgs ==
    {[BareTask EXCEPT !.description = t, !.friction_score = f, !.bucket = b]
        : t \in FrictionDescriptions, f \in ScoreInputs, b \in BucketInputs}

ArgSet == GridArgs \cup MixedArgs \cup EdgeArgs \cup FrictionArgs

NoStore ==
    /\ tasks = <<>>
    /\ nextId = 1
    /\ resp = [status |-> 0, kind |-> "none", body |-> <<>>, at |-> 0]
    /\ server = "v2"
    /\ dump = NoDump

InitScore ==
    /\ now = T0
    /\ arg \in ArgSet
    /\ ret = <<>>
    /\ NoStore

\* one call computeTonyScore(arg)
CallScore ==
    /\ ret = <<>>
    /\ ret' = <<computeTonyScore(arg, now)>>
    /\ UNCHANGED <<now, tasks, nextId, resp, arg, server, dump>>

NextScore == CallScore

SpecScore == InitScore /\ [][NextScore]_vars

----------------------------------------------------------------------------
(* Claims about computeTonyScore, checked under SpecScore *)

Called == ret # <<>>

Absent(x) == x.t \in {"undefined", "null"}

C5_CompositeIsSum ==
    Called =>
        ret[1].tony_score =
            ret[1].leverage_score + ret[1].urgency_score
                + ret[1].risk_score - ret[1].friction_score

\* C5 witness: a grid point with every explicit sub-score at its maximum and
\* an overdue due date was scored.
C5_Witness ==
    /\ Called
    /\ arg \in GridArgs
    /\ ret[1].leverage_score = MaxScore /\ ret[1].risk_score = MaxScore
    /\ ret[1].friction_score = MaxScore /\ ret[1].urgency_score = 5
    /\ ret[1].tony_score = MaxScore + 5

\* C6: with no explicit leverage_score, leverage = 6 - clamp(priority, 1, 5),
\* an absent priority counting as 3; so priority 1 gives 5, priority 5 gives
\* 1, anything below 1 gives 5, anything above 5 gives 1, and the inferred
\* leverage is always in 1..5.
C6_InferredLeverage ==
    (Called /\ ~IsNumber(arg.leverage_score)) =>
        /\ ret[1].leverage_score \in 1..5
        /\ Absent(arg.priority) => ret[1].leverage_score = 3
        /\ arg.priority.t = "number" =>
              /\ arg.priority.v < 1 => ret[1].leverage_score = 5
              /\ arg.priority.v > 5 => ret[1].leverage_score = 1
              /\ arg.priority.v \in 1..5
                    => ret[1].leverage_score = 6 - arg.priority.v

\* C6 witness: a task with priority above 5 and no explicit leverage_score
\* was scored.
C6_Witness ==
    /\ Called
    /\ ~IsNumber(arg.leverage_score)
    /\ arg.priority.t = "number" /\ arg.priority.v > 5
    /\ ret[1].leverage_score = 1

\* the urgency scale of the specification, by whole milliseconds to due
UrgencyScale(diffMs) ==
    CASE diffMs < 0                                            -> 5
      [] diffMs >= 0 /\ diffMs <= 24 * MsPerHour               -> 4
      [] diffMs > 24 * MsPerHour /\ diffMs <= 72 * MsPerHour   -> 3
      [] diffMs > 72 * MsPerHour /\ diffMs <= 168 * MsPerHour  -> 2
      [] diffMs > 168 * MsPerHour                              -> 1

\* C7: with a valid due_date, urgency is 5 when overdue, 4 within 0..24 h
\* (inclusive), 3 up to 72 h, 2 up to 7 days, 1 beyond, whatever the bucket;
\* and moving the due date later never increases it.
C7_DueDateUrgency ==
    (Called /\ arg.due_date.t = "date") =>
        /\ ret[1].urgency_score = UrgencyScale(arg.due_date.v - now)
        /\ \A o \in DueOffsets :
              T0 + o >= arg.due_date.v =>
                  computeTonyScore([arg EXCEPT !.due_date = DateAt(T0 + o)],
                                   now).urgency_score
                      <= ret[1].urgency_score

\* C7 witness: a task in bucket later due in exactly 24 hours got urgency 4.
C7_Witness ==
    /\ Called
    /\ arg.due_date = DateAt(now + 24 * MsPerHour)
    /\ arg.bucket = "later"
    /\ ret[1].urgency_score = 4

\* C8: with no due_date, urgency is 3 for bucket today, 2 for this_week and
\* 1 for every other bucket value (later, backlog, unset).
C8_BucketUrgency ==
    (Called /\ arg.due_date.t \in {"undefined", "null", "empty"}) =>
        ret[1].urgency_score =
            CASE arg.bucket = "today"     -> 3
              [] arg.bucket = "this_week" -> 2
              [] OTHER                    -> 1

\* C8 witness: a this_week task with no due_date got urgency 2.
C8_Witness ==
    /\ Called
    /\ arg.due_date = NullDate
    /\ arg.bucket = "this_week"
    /\ ret[1].urgency_score = 2

\* C9: a due_date that is present but does not parse is treated as absent:
\* the urgency returned is the bucket-based one (today 3, this_week 2,
\* otherwise 1).
C9_InvalidDueFallsBackToBucket ==
    (Called /\ arg.due_date.t = "invalid") =>
        ret[1].urgency_score =
            CASE arg.bucket = "today"     -> 3
              [] arg.bucket = "this_week" -> 2
              [] OTHER                    -> 1

\* C10: with no explicit risk_score, risk is 4 when the computed urgency is
\* 4 or 5, 3 when it is 3, and 2 otherwise: a function of that urgency only.
C10_InferredRisk ==
    (Called /\ ~IsNumber(arg.risk_score)) =>
        ret[1].risk_score =
            CASE ret[1].urgency_score \in {4, 5} -> 4
              [] ret[1].urgency_score = 3        -> 3
              [] OTHER                           -> 2

\* C10 witness: a task with no explicit risk_score and computed urgency 4
\* got risk 4.
C10_Witness ==
    /\ Called
    /\ ~IsNumber(arg.risk_score)
    /\ ret[1].urgency_score = 4
    /\ ret[1].risk_score = 4

\* the lower-cased description contains one of the keywords
Mentions(description, keywords) ==
    /\ description.t = "string"
    /\ \E w \in keywords : Includes(ToLowerCase(description.s), w)

\* C11: with no explicit friction_score, friction is 3 when the lower-cased
\* description contains tax, accounting or legal; otherwise 1 when it
\* contains call or email; otherwise 2 (an empty or missing description
\* included). "Tax call" and "email legal" give 3.
C11_InferredFriction ==
    (Called /\ ~IsNumber(arg.friction_score)) =>
        /\ ret[1].friction_score =
              IF Mentions(arg.description, {KwTax, KwAccounting, KwLegal})
              THEN 3
              ELSE IF Mentions(arg.description, {KwCall, KwEmail}) THEN 1
              ELSE 2
        /\ arg.description \in {Str(DescTaxCall), Str(DescEmailLegal)}
              => ret[1].friction_score = 3
        /\ arg.description \in {Str(DescLoan), Str(DescRecall)}
              => ret[1].friction_score = 1
        /\ arg.description \in {UndefText, NullText, Str(<<>>), Str(DescMilk)}
              => ret[1].friction_score = 2

\* C11 witness: a description holding both "tax" and "call", with no
\* explicit friction_score, got friction 3.
C11_Witness ==
    /\ Called
    /\ ~IsNumber(arg.friction_score)
    /\ arg.description = Str(DescTaxCall)
    /\ ret[1].friction_score = 3

----------------------------------------------------------------------------
(* Claims about GET /tasks, checked under Spec *)

Listed == resp.kind = "list"

\* what the scoring rules yield from a listed task's stored priority,
\* due_date, bucket and description at the instant of the read
FreshScores(t, at) ==
    computeTonyScore(
        ScoreInput(Num(t.priority), t.due_date, t.bucket, t.description,
                   UndefNum, UndefNum, UndefNum, UndefNum), at)

\* C1: at every read, the leverage, urgency, risk, friction and composite
\* score returned for a task equal what the scoring rules yield from its
\* stored priority, due_date, bucket and description at the time of the
\* read; none is a value frozen at creation.
C1_ScoresFreshAtRead ==
    Listed =>
        \A i \in 1..Len(resp.body) :
            LET t     == resp.body[i]
                fresh == FreshScores(t, resp.at)
            IN  /\ t.leverage_score = fresh.leverage_score
                /\ t.urgency_score = fresh.urgency_score
                /\ t.risk_score = fresh.risk_score
                /\ t.friction_score = fresh.friction_score
                /\ t.score = fresh.tony_score

\* the bucket rank of the specification: today < this_week < later
BucketRank(bucket) ==
    CASE bucket = "today"     -> 1
      [] bucket = "this_week" -> 2
      [] bucket = "later"     -> 3

\* C2: in the list returned, of two incomplete tasks in different buckets
\* the one in the earlier bucket (today, then this_week, then later) comes
\* first, whatever their priority, due_date and created_at.
C2_EarlierBucketFirst ==
    Listed =>
        \A i, j \in 1..Len(resp.body) :
            (/\ resp.body[i].status # "done"
             /\ resp.body[j].status # "done"
             /\ BucketRank(resp.body[i].bucket)
                    < BucketRank(resp.body[j].bucket))
                => i < j

\* C3: in the list returned, every done task comes after every task that is
\* not done, whatever their bucket, priority, due_date and created_at.
C3_DoneLast ==
    Listed =>
        \A i, j \in 1..Len(resp.body) :
            (resp.body[i].status = "done" /\ resp.body[j].status # "done")
                => j < i

\* C3 witness: a list was returned in which an open task precedes a done
\* task that every other sort key (bucket text, priority, due date,
\* creation time) would put first.
C3_Witness ==
    /\ Listed
    /\ Len(resp.body) = 2
    /\ resp.body[1].status = "open" /\ resp.body[2].status = "done"
    /\ resp.body[1].bucket = "today" /\ resp.body[2].bucket = "later"
    /\ resp.body[1].priority = 5 /\ resp.body[2].priority = 1
    /\ resp.body[1].due_date = NullDate /\ resp.body[2].due_date.t = "date"
    /\ resp.body[2].created_at < resp.body[1].created_at

----------------------------------------------------------------------------
(* POST /brain-dump of the second server: the candidates the language      *)
(* model returned are inserted one by one inside BEGIN ... COMMIT          *)

TitleCall == <<"C", "a", "l", "l", " ", "b", "a", "n", "k">>
TitleBlank == <<" ", " ">>
AreaGeneral == <<"G", "e", "n", "e", "r", "a", "l">>

\* one element of parsed.tasks: any property may be missing
Candidate(title, description, bucket, priority, due_date) ==
    [title       |-> title,
     description |-> description,
     area        |-> UndefText,
     bucket      |-> bucket,
     priority    |-> priority,
     due_date    |-> due_date]

CandCall  == Candidate(Str(TitleCall), Str(DescLoan), "undefined", UndefNum,
                       UndefDate)
CandPay   == Candidate(Str(TitleOk), UndefText, "later", Num(1),
                       DateAt(DueInstant))
CandBlank == Candidate(Str(TitleBlank), UndefText, "today", Num(1), UndefDate)
CandBadDate == Candidate(Str(TitleOk), UndefText, "today", Num(1),
                         InvalidDate)

\* a JSON number where a string is expected: truthy, and without trim()
NumberForText == [t |-> "number", s |-> <<"4", "2">>]

CandNumTitle == Candidate(NumberForText, UndefText, "today", Num(1),
                          UndefDate)

\* the requests: req.body.default_bucket and the array the model answered
DumpRequest(default_bucket, batch) ==
    [default_bucket |-> default_bucket, batch |-> batch]

DumpRequests ==
    {DumpRequest("undefined", <<>>),
     DumpRequest("undefined", <<CandCall>>),
     DumpRequest("undefined", <<CandCall, CandCall>>),
     DumpRequest("undefined", <<CandBlank, CandPay>>),
     DumpRequest("undefined", <<CandPay, CandBadDate>>),
     DumpRequest("undefined", <<CandPay, CandNumTitle>>),
     DumpRequest("later", <<CandCall>>),
     DumpRequest("backlog", <<CandPay>>)}

\* the row one iteration of the loop inserts; NOW() is the time of BEGIN
DumpRow(t, defaultBucket, begun) ==
    LET title       == Str(Trim(t.title.s))
        bucket      == IF isValidBucket(t.bucket) THEN t.bucket
                       ELSE defaultBucket
        priority    == clampPriority(ToNumber(Coalesce(t.priority, Num(3))))
        area        == IF TruthyText(t.area) /\ Len(Trim(t.area.s)) > 0
                       THEN Str(Trim(t.area.s)) ELSE Str(AreaGeneral)
        description == IF TruthyText(t.description)
                          /\ Len(Trim(t.description.s)) > 0
                       THEN Str(Trim(t.description.s)) ELSE NullText
        dueDate     == IF TruthyDate(t.due_date) THEN t.due_date ELSE NullDate
        scores      == computeTonyScore(
                           ScoreInput(Num(priority), dueDate, bucket,
                                      description, UndefNum, UndefNum,
                                      UndefNum, UndefNum), now)
    IN  [id             |-> nextId,
         title          |-> title,
         description    |-> description,
         area           |-> area,
         status         |-> "open",
         bucket         |-> bucket,
         priority       |-> priority,
         leverage_score |-> Num(scores.leverage_score),
         urgency_score  |-> Num(scores.urgency_score),
         risk_score     |-> Num(scores.risk_score),
         friction_score |-> Num(scores.friction_score),
         due_date       |-> dueDate,
         created_at     |-> begun,
         updated_at     |-> begun]

\* the request up to client.query("BEGIN"); an empty array is answered at once
DumpBegin(req) ==
    /\ dump.phase # "open"
    /\ nextId <= MaxTasks
    /\ IF req.batch = <<>>
       THEN /\ resp' = Reply(200, "dump", <<>>)
            /\ dump' = NoDump
       ELSE /\ dump' = [phase   |-> "open",
                        batch   |-> req.batch,
                        pos     |-> 1,
                        rows    |-> <<>>,
                        created |-> <<>>,
                        begun   |-> now,
                        defaultBucket |->
                            IF isValidBucket(req.default_bucket)
                            THEN req.default_bucket ELSE "today"]
            /\ UNCHANGED resp
    /\ UNCHANGED <<now, tasks, nextId, arg, ret, server>>

\* an INSERT sent with pool.query: its own transaction, committed at once
InsertAutocommit(committed, uncommitted, row) ==
    [committed |-> Append(committed, row), uncommitted |-> uncommitted]

\* an INSERT sent with client.query after BEGIN: the row stays private to
\* the connection until COMMIT
InsertInTransaction(committed, uncommitted, row) ==
    [committed |-> committed, uncommitted |-> Append(uncommitted, row)]

\* one iteration of the loop over tasksArr
DumpStep ==
    /\ dump.phase = "open"
    /\ dump.pos <= Len(dump.batch)
    /\ LET t == dump.batch[dump.pos]
       IN  IF t.title.t # "number"
              /\ (~TruthyText(t.title) \/ Len(Trim(t.title.s)) = 0)
           THEN \* continue
                /\ dump' = [dump EXCEPT !.pos = @ + 1]
                /\ UNCHANGED <<tasks, nextId, resp>>
           ELSE IF t.title.t = "number" \/ t.due_date.t = "invalid"
           THEN \* trim is not a function, or toISOString throws;
                \* catch: ROLLBACK, then the error handler
                /\ dump' = [dump EXCEPT !.phase = "rolledback", !.rows = <<>>]
                /\ resp' = Reply(500, "error", <<>>)
                /\ UNCHANGED <<tasks, nextId>>
           ELSE /\ nextId <= MaxTasks
                /\ LET row == DumpRow(t, dump.defaultBucket, dump.begun)
                       db  == InsertInTransaction(tasks, dump.rows, row)
                   IN  /\ tasks' = db.committed
                       /\ dump' = [dump EXCEPT
                              !.pos = @ + 1,
                              !.rows = db.uncommitted,
                              !.created = Append(@,
                                  [from |-> dump.pos,
                                   at   |-> now,
                                   task |-> mapTaskRow(row, now)])]
                /\ nextId' = nextId + 1
                /\ UNCHANGED resp
    /\ UNCHANGED <<now, arg, ret, server>>

\* COMMIT after the last iteration, then the 201 with the created tasks
DumpCommit ==
    /\ dump.phase = "open"
    /\ dump.pos > Len(dump.batch)
    /\ tasks' = tasks \o dump.rows
    /\ dump' = [dump EXCEPT !.phase = "committed", !.rows = <<>>]
    /\ resp' = Reply(201, "dump",
                     [k \in 1..Len(dump.created) |-> dump.created[k].task])
    /\ UNCHANGED <<now, nextId, arg, ret, server>>

\* the bodies of POST /tasks made of the same fields as the candidates
DumpBodies == {CandCall, CandPay, CandBlank, CandBadDate}

NextDump ==
    \/ \E req \in DumpRequests : DumpBegin(req)
    \/ DumpStep
    \/ DumpCommit
    \/ \E body \in DumpBodies : PostTask(body)
    \/ GetTasks
    \/ Tick

SpecDump == Init /\ [][NextDump]_vars

----------------------------------------------------------------------------
(* The first server of index.js: POST /tasks, PATCH /tasks/:id,            *)
(* POST /tasks/parse and GET /tasks over pool.query                        *)

\* the rows a run of the first server or of unnamed/part_000 inserts
MaxRows == 1

\* req.body of POST /tasks of the first server and of unnamed/part_000
FormBody(title, priority, status, bucket) ==
    [title    |-> title,
     priority |-> priority,
     status   |-> status,
     bucket   |-> bucket]

\* NaN stands for a priority that is not the text of a number
FormBodies ==
    {FormBody(Str(TitleOk), UndefNum, "undefined", "undefined"),
     FormBody(Str(TitleOk), Num(9), "done", "backlog"),
     FormBody(Str(TitleOk), NaN, "undefined", "this_week"),
     FormBody(Str(TitleBlank), Num(1), "undefined", "today")}

\* a row of the table of the first server or of unnamed/part_000 (no
\* urgency_score column); created_at and updated_at take DEFAULT now()
StoredRow(title, description, area, status, bucket, priority, lev, risk, fric) ==
    [id             |-> nextId,
     title          |-> title,
     description    |-> description,
     area           |-> area,
     status         |-> status,
     bucket         |-> bucket,
     priority       |-> priority,
     leverage_score |-> Num(lev),
     risk_score     |-> Num(risk),
     friction_score |-> Num(fric),
     due_date       |-> NullDate,
     created_at     |-> now,
     updated_at     |-> now]

\* POST /tasks of the first server
PostTaskV1(body) ==
    /\ server = "v1"
    /\ nextId <= MaxRows
    /\ IF ~TruthyText(body.title) \/ Len(Trim(body.title.s)) = 0
       THEN /\ resp' = Reply(400, "error", <<>>)
            /\ UNCHANGED <<tasks, nextId>>
       ELSE IF body.priority.t = "NaN"
       THEN \* invalid input syntax for type integer
            /\ resp' = Reply(500, "error", <<>>)
            /\ UNCHANGED <<tasks, nextId>>
       ELSE LET row == StoredRow(
                           Str(Trim(body.title.s)), Str(<<>>), NullText,
                           IF body.status = "undefined" THEN "open"
                           ELSE body.status,
                           IF body.bucket = "undefined" THEN "today"
                           ELSE body.bucket,
                           Coalesce(body.priority, Num(3)).v, 1, 1, 1)
            IN  /\ tasks' = Append(tasks, row)
                /\ nextId' = nextId + 1
                /\ resp' = Reply(201, "row", <<row>>)
    /\ UNCHANGED <<now, arg, ret, server, dump>>

\* the keys PATCH /tasks/:id copies from req.body into the SET list
Allowed ==
    {"title", "description", "status", "priority", "leverage_score",
     "risk_score", "friction_score", "due_date", "estimated_minutes",
     "bucket", "area", "business_id", "project_id", "assigned_person_id"}

\* the bodies of PATCH /tasks/:id: any own properties, of any value
Patches ==
    {[status |-> "done", priority |-> Num(9)],
     [id |-> 7, created_at |-> TickMs, title |-> Str(<<>>)],
     [title |-> NullText],
     [priority |-> NaN],
     [created_at |-> TickMs, updated_at |-> 0]}

\* the column value a parameter of the UPDATE becomes
ColumnValue(key, value) == IF key = "priority" THEN value.v ELSE value

\* SET <the allowed keys of the body> with the clock left alone
SetClauseFieldsOnly(row, patch) ==
    [key \in DOMAIN row |->
        IF key \in DOMAIN patch \cap Allowed
        THEN ColumnValue(key, patch[key]) ELSE row[key]]

\* SET <the allowed keys of the body>, updated_at = now()
SetClause(row, patch) ==
    [key \in DOMAIN row |->
        IF key = "updated_at" THEN now
        ELSE IF key \in DOMAIN patch \cap Allowed
        THEN ColumnValue(key, patch[key]) ELSE row[key]]

\* a parameter the UPDATE cannot take whatever the row: text that is not
\* an integer for an INTEGER column
BadParameter(patch) ==
    "priority" \in DOMAIN patch /\ patch.priority.t # "number"

\* NULL for a NOT NULL column, refused once a row is updated
NullViolation(patch) ==
    "title" \in DOMAIN patch /\ patch.title.t # "string"

\* PATCH /tasks/:id; id is Number(req.params.id)
PatchTask(id, patch) ==
    /\ server = "v1"
    /\ IF id.t # "number"
       THEN /\ resp' = Reply(400, "error", <<>>)
            /\ UNCHANGED tasks
       ELSE IF DOMAIN patch \cap Allowed = {}
       THEN /\ resp' = Reply(400, "error", <<>>)
            /\ UNCHANGED tasks
       ELSE IF BadParameter(patch)
       THEN /\ resp' = Reply(500, "error", <<>>)
            /\ UNCHANGED tasks
       ELSE IF \A i \in 1..Len(tasks) : tasks[i].id # id.v
       THEN /\ resp' = Reply(404, "error", <<>>)
            /\ UNCHANGED tasks
       ELSE IF NullViolation(patch)
       THEN /\ resp' = Reply(500, "error", <<>>)
            /\ UNCHANGED tasks
       ELSE LET i   == CHOOSE k \in 1..Len(tasks) : tasks[k].id = id.v
                row == SetClause(tasks[i], patch)
            IN  /\ tasks' = [tasks EXCEPT ![i] = row]
                /\ resp' = Reply(200, "row", <<row>>)
    /\ UNCHANGED <<now, nextId, arg, ret, server, dump>>

\* the orders SELECT * FROM tasks ORDER BY created_at ASC may return
SelectByCreation(rows) ==
    {[i \in 1..Len(rows) |-> rows[f[i]]] : f \in
        {g \in IndexPermutations(Len(rows)) :
            \A i, j \in 1..Len(rows) :
                i < j => rows[g[i]].created_at <= rows[g[j]].created_at}}

\* GET /tasks of the first server and of unnamed/part_000
GetTasksByCreation ==
    /\ server \in {"v1", "p"}
    /\ \E rows \in SelectByCreation(tasks) : resp' = Reply(200, "rows", rows)
    /\ UNCHANGED <<now, tasks, nextId, arg, ret, server, dump>>

\* an element of the array POST /tasks/parse reads from the model's answer
Item(title, priority) == [title |-> title, priority |-> priority]

ItemPay == Item(Str(TitleOk), UndefNum)
ItemBlank == Item(Str(TitleBlank), UndefNum)
ItemNoTitle == Item(UndefText, Num(1))
ItemNine == Item(Str(TitleCall), Num(9))
\* "priority": "high"
ItemBadPriority == Item(Str(TitleCall), NaN)
\* "title": 42
ItemNumTitle == Item(NumberForText, Num(1))

\* the arrays the model may answer
ItemLists ==
    {<<>>,
     <<ItemNoTitle, ItemBlank>>,
     <<ItemPay, ItemBadPriority>>}

\* POST /tasks/parse up to the loop; an empty array is a 400
ParseBegin(items) ==
    /\ server = "v1"
    /\ dump.phase # "open"
    /\ nextId <= MaxRows
    /\ IF items = <<>>
       THEN /\ resp' = Reply(400, "error", <<>>)
            /\ dump' = NoDump
       ELSE /\ dump' = [NoDump EXCEPT !.phase = "open", !.batch = items,
                                      !.begun = now]
            /\ UNCHANGED resp
    /\ UNCHANGED <<now, tasks, nextId, arg, ret, server>>

\* one iteration of the loop: an INSERT through pool.query, committed by
\* itself; an error ends the request in the catch clause
ParseStep ==
    /\ server = "v1"
    /\ dump.phase = "open"
    /\ dump.pos <= Len(dump.batch)
    /\ LET t == dump.batch[dump.pos]
       IN  IF t.title.t \in {"undefined", "null"} \/ t.title = Str(<<>>)
           THEN \* continue
                /\ dump' = [dump EXCEPT !.pos = @ + 1]
                /\ UNCHANGED <<tasks, nextId, resp>>
           ELSE IF t.priority.t \in {"NaN", "null"}
           THEN /\ dump' = [dump EXCEPT !.phase = "failed"]
                /\ resp' = Reply(500, "error", <<>>)
                /\ UNCHANGED <<tasks, nextId>>
           ELSE /\ nextId <= MaxRows
                /\ LET row == StoredRow(
                                  t.title, Str(<<>>), NullText, "open",
                                  "today", Coalesce(t.priority, Num(3)).v,
                                  1, 1, 1)
                   IN  /\ tasks' = Append(tasks, row)
                       /\ dump' = [dump EXCEPT
                              !.pos = @ + 1,
                              !.created = Append(@,
                                  [from |-> dump.pos, at |-> now,
                                   task |-> row])]
                /\ nextId' = nextId + 1
                /\ UNCHANGED resp
    /\ UNCHANGED <<now, arg, ret, server>>

\* res.status(201).json(inserted)
ParseEnd ==
    /\ server = "v1"
    /\ dump.phase = "open"
    /\ dump.pos > Len(dump.batch)
    /\ dump' = [dump EXCEPT !.phase = "replied"]
    /\ resp' = Reply(201, "rows",
                     [k \in 1..Len(dump.created) |-> dump.created[k].task])
    /\ UNCHANGED <<now, tasks, nextId, arg, ret, server>>

----------------------------------------------------------------------------
(* The server of unnamed/part_000: POST /tasks, PATCH /tasks/:id/complete, *)
(* DELETE /tasks/:id, POST /brain-dump and GET /tasks over pool.query      *)

normalizeBucket(bucket) ==
    IF bucket = "undefined" THEN "later"
    ELSE IF bucket = "today" THEN "today"
    ELSE IF bucket = "this_week" THEN "this_week"
    ELSE "later"

\* parseInt(v, 10), or the fallback when that is NaN
safeInt(v, fallback) == IF v.t = "number" THEN v.v ELSE fallback

\* req.params.id as the router hands it over: the text of the path segment
Digits == <<"0", "1", "2", "3", "4", "5", "6", "7", "8", "9">>

IsDigit(c) == \E d \in 1..10 : Digits[d] = c

DigitValue(c) == (CHOOSE d \in 1..10 : Digits[d] = c) - 1

\* the value of a text made of digits
RECURSIVE DecimalValue(_)
DecimalValue(text) ==
    IF text = <<>> THEN 0
    ELSE 10 * DecimalValue(SubSeq(text, 1, Len(text) - 1))
         + DigitValue(text[Len(text)])

\* the digits a text starts with
RECURSIVE LeadingDigits(_)
LeadingDigits(text) ==
    IF text = <<>> \/ ~IsDigit(Head(text)) THEN <<>>
    ELSE <<Head(text)>> \o LeadingDigits(Tail(text))

\* parseInt(text, 10): the number the leading digits spell, NaN without any
parseInt10(text) ==
    IF LeadingDigits(text) = <<>> THEN NaN
    ELSE Num(DecimalValue(LeadingDigits(text)))

\* a number that is not an integer
Fraction == [t |-> "fraction", v |-> 0]

\* Number(text): digits only give an integer, digits around one point a
\* fraction, anything else NaN
NumberOf(text) ==
    IF text # <<>> /\ \A k \in 1..Len(text) : IsDigit(text[k])
    THEN Num(DecimalValue(text))
    ELSE IF \E k \in 2..(Len(text) - 1) :
               /\ text[k] = "."
               /\ \A j \in 1..Len(text) : j # k => IsDigit(text[j])
    THEN Fraction
    ELSE NaN

\* the path segments requests carry: the ids in use, one past them, and
\* segments that are not integers
PathParams ==
    {<<Digits[i + 1]>> : i \in 1..(MaxTasks + 1)}
    \cup {<<"1", ".", "5">>, <<"1", "a">>, <<"a">>}

\* POST /tasks of unnamed/part_000
PostTaskP(body) ==
    /\ server = "p"
    /\ nextId <= MaxRows
    /\ IF ~TruthyText(body.title) \/ Len(Trim(body.title.s)) = 0
       THEN /\ resp' = Reply(400, "error", <<>>)
            /\ UNCHANGED <<tasks, nextId>>
       ELSE LET row == StoredRow(
                           Str(Trim(body.title.s)), NullText, NullText,
                           IF body.status = "undefined" THEN "open"
                           ELSE body.status,
                           normalizeBucket(body.bucket),
                           safeInt(Coalesce(body.priority, Num(3)), 3),
                           3, 2, 2)
            IN  /\ tasks' = Append(tasks, row)
                /\ nextId' = nextId + 1
                /\ resp' = Reply(201, "row", <<row>>)
    /\ UNCHANGED <<now, arg, ret, server, dump>>

\* PATCH /tasks/:id/complete of unnamed/part_000
CompleteTaskP(id) ==
    /\ server = "p"
    /\ IF id.t # "number"
       THEN /\ resp' = Reply(400, "error", <<>>)
            /\ UNCHANGED tasks
       ELSE IF \A i \in 1..Len(tasks) : tasks[i].id # id.v
       THEN /\ resp' = Reply(404, "error", <<>>)
            /\ UNCHANGED tasks
       ELSE LET i   == CHOOSE k \in 1..Len(tasks) : tasks[k].id = id.v
                row == [tasks[i] EXCEPT !.status = "done", !.updated_at = now]
            IN  /\ tasks' = [tasks EXCEPT ![i] = row]
                /\ resp' = Reply(200, "row", <<row>>)
    /\ UNCHANGED <<now, nextId, arg, ret, server, dump>>

\* DELETE /tasks/:id of unnamed/part_000
DeleteTaskP(id) ==
    /\ server = "p"
    /\ IF id.t # "number"
       THEN /\ resp' = Reply(400, "error", <<>>)
            /\ UNCHANGED tasks
       ELSE IF \A i \in 1..Len(tasks) : tasks[i].id # id.v
       THEN /\ resp' = Reply(404, "error", <<>>)
            /\ UNCHANGED tasks
       ELSE /\ tasks' = SelectSeq(tasks, LAMBDA r : r.id # id.v)
            /\ resp' = Reply(200, "empty", <<>>)
    /\ UNCHANGED <<now, nextId, arg, ret, server, dump>>

\* the arrays the model may answer to POST /brain-dump of unnamed/part_000
ItemListsP ==
    {<<>>,
     <<ItemBlank, ItemNine>>,
     <<ItemPay, ItemNumTitle>>}

\* POST /brain-dump of unnamed/part_000 up to the loop
BrainDumpBeginP(items) ==
    /\ server = "p"
    /\ dump.phase # "open"
    /\ nextId <= MaxRows
    /\ dump' = [NoDump EXCEPT !.phase = "open", !.batch = items,
                              !.begun = now]
    /\ UNCHANGED <<now, tasks, nextId, resp, arg, ret, server>>

\* one iteration of the loop: an INSERT through pool.query, committed by
\* itself; an error ends the request in the catch clause
BrainDumpStepP ==
    /\ server = "p"
    /\ dump.phase = "open"
    /\ dump.pos <= Len(dump.batch)
    /\ LET t == dump.batch[dump.pos]
       IN  IF t.title.t = "number"
           THEN \* (t.title || "").trim is not a function
                /\ dump' = [dump EXCEPT !.phase = "failed"]
                /\ resp' = Reply(500, "error", <<>>)
                /\ UNCHANGED <<tasks, nextId>>
           ELSE IF ~TruthyText(t.title) \/ Len(Trim(t.title.s)) = 0
           THEN \* continue
                /\ dump' = [dump EXCEPT !.pos = @ + 1]
                /\ UNCHANGED <<tasks, nextId, resp>>
           ELSE /\ nextId <= MaxRows
                /\ LET priority == safeInt(t.priority, 3)
                       row == StoredRow(
                                  Str(Trim(t.title.s)), NullText, NullText,
                                  "open", normalizeBucket("today"), priority,
                                  6 - priority,
                                  IF priority >= 4 THEN 4 ELSE 2, 2)
                   IN  /\ tasks' = Append(tasks, row)
                       /\ dump' = [dump EXCEPT
                              !.pos = @ + 1,
                              !.created = Append(@,
                                  [from |-> dump.pos, at |-> now,
                                   task |-> row])]
                /\ nextId' = nextId + 1
                /\ UNCHANGED resp
    /\ UNCHANGED <<now, arg, ret, server>>

\* res.json({ tasks: inserted })
BrainDumpEndP ==
    /\ server = "p"
    /\ dump.phase = "open"
    /\ dump.pos > Len(dump.batch)
    /\ dump' = [dump EXCEPT !.phase = "replied"]
    /\ resp' = Reply(200, "rows",
                     [k \in 1..Len(dump.created) |-> dump.created[k].task])
    /\ UNCHANGED <<now, tasks, nextId, arg, ret, server>>

----------------------------------------------------------------------------
(* The three servers side by side: each run is one of them *)

InitServers ==
    /\ now = 0
    /\ tasks = <<>>
    /\ nextId = 1
    /\ resp = [status |-> 0, kind |-> "none", body |-> <<>>, at |-> 0]
    /\ arg = BareTask
    /\ ret = <<>>
    /\ server \in {"v1", "v2", "p"}
    /\ dump = NoDump

\* the requests made of the second server in these runs: those that write
\* (its GET /tasks is read under Spec and SpecDump)
ServersBodies == {CandPay, CandBlank}
ServersRequests ==
    {DumpRequest("undefined", <<CandPay>>),
     DumpRequest("undefined", <<CandPay, CandNumTitle>>)}

NextServers ==
    \/ \E body \in FormBodies : PostTaskV1(body)
    \/ \E id \in IdParams : \E patch \in Patches : PatchTask(id, patch)
    \/ \E items \in ItemLists : ParseBegin(items)
    \/ ParseStep
    \/ ParseEnd
    \/ GetTasksByCreation
    \/ \E body \in FormBodies : PostTaskP(body)
    \/ \E raw \in PathParams : CompleteTaskP(parseInt10(raw))
    \/ \E raw \in PathParams : DeleteTaskP(parseInt10(raw))
    \/ \E items \in ItemListsP : BrainDumpBeginP(items)
    \/ BrainDumpStepP
    \/ BrainDumpEndP
    \/ server = "v2" /\ \E body \in ServersBodies : PostTask(body)
    \/ server = "v2" /\ \E id \in IdParams : CompleteTask(id)
    \/ server = "v2" /\ \E id \in IdParams : DeleteTask(id)
    \/ server = "v2" /\ \E req \in ServersRequests : DumpBegin(req)
    \/ server = "v2" /\ DumpStep
    \/ server = "v2" /\ DumpCommit
    \/ Tick

SpecServers == InitServers /\ [][NextServers]_vars

\* the ids of the rows of a sequence of tasks
Ids(rows) == {rows[k].id : k \in 1..Len(rows)}

\* the ids the brain-dump request has inserted so far
DumpIds == {dump.created[k].task.id : k \in 1..Len(dump.created)}

\* two tasks agree on every key of the ORDER BY list
SameRank(t, u) ==
    /\ (t.status = "done") = (u.status = "done")
    /\ t.bucket = u.bucket
    /\ t.priority = u.priority
    /\ t.due_date = u.due_date
    /\ t.created_at = u.created_at

\* C13: tasks equal in all five ranking keys (completion state, bucket,
\* priority, due_date, created_at), such as the tasks of one brain-dump
\* transaction, are returned by GET /tasks in the order they were inserted,
\* on every read.
C13_TiesInInsertionOrder ==
    Listed =>
        \A i, j \in 1..Len(resp.body) :
            (i < j /\ SameRank(resp.body[i], resp.body[j]))
                => resp.body[i].id < resp.body[j].id

\* the four sub-scores and the composite of a task as a response shows it
ScoresOf(task) ==
    <<task.leverage_score, task.urgency_score, task.risk_score,
      task.friction_score, task.score>>

\* C15: a task persisted by a brain-dump request gets the same leverage,
\* urgency, risk, friction and composite score as the task POST /tasks
\* creates from the same fields (title, description, bucket, priority,
\* due_date, each possibly absent) at the same time; the candidate
\* {title: 'Call bank', description: 'call about loan'} gets leverage 3 and
\* friction 1.
C15_DumpScoresLikePost ==
    \A k \in 1..Len(dump.created) :
        LET made == dump.created[k]
            t    == dump.batch[made.from]
        IN  (made.at = now /\ validateTaskPayload(t) = {}) =>
                /\ ScoresOf(made.task) = ScoresOf(mapTaskRow(NewRow(t), now))
                /\ t = CandCall =>
                      /\ made.task.leverage_score = 3
                      /\ made.task.friction_score = 1

\* C20: a GET /tasks running while a transactional POST /brain-dump is in
\* flight returns none or all of the tasks the request commits, never a
\* non-empty strict subset of the batch, and never a task of a batch that
\* is rolled back.
C20_ReadSeesWholeBatches ==
    Listed =>
        LET seen == Ids(resp.body)
        IN  /\ dump.phase \in {"open", "rolledback"} => seen \cap DumpIds = {}
            /\ dump.phase = "committed" =>
                  seen \cap DumpIds = {} \/ DumpIds \subseteq seen

\* a read taken after the first INSERT of an open transaction (it returns a
\* task created by a later POST /tasks) and before the COMMIT
C20_Witness ==
    /\ Listed
    /\ dump.phase = "open"
    /\ \E id \in Ids(resp.body) : \E k \in DumpIds : id > k

\* C14: for every brain-dump handler (POST /brain-dump and POST /tasks/parse
\* of index.js, POST /brain-dump of unnamed/part_000), when the request has
\* failed after inserting some of its tasks, none of its tasks is in the
\* store.
C14_FailedBatchLeavesNothing ==
    dump.phase \in {"failed", "rolledback"} => DumpIds \cap Ids(tasks) = {}

\* C16: after any sequence of create, brain-dump, PATCH /tasks/:id, complete
\* and delete requests every task in the store has a title that is not
\* empty once trimmed.
C16_TitleNeverBlank ==
    \A k \in 1..Len(tasks) :
        /\ tasks[k].title.t = "string"
        /\ Len(Trim(tasks[k].title.s)) > 0

\* C17: after any sequence of create, brain-dump and update requests every
\* task in the store has an integer priority in 1..5, and a task a
\* brain-dump created from an absent or non-numeric priority has priority 3.
C17_PriorityInRange ==
    /\ \A k \in 1..Len(tasks) : tasks[k].priority \in 1..5
    /\ \A k \in 1..Len(dump.created) :
          dump.batch[dump.created[k].from].priority.t \in {"undefined", "NaN"}
              => dump.created[k].task.priority = 3

\* a 201 that carries the task just inserted
Created == resp.status = 201 /\ resp.kind \in {"task", "row"}

\* C18: a task newly inserted by POST /tasks, POST /brain-dump or
\* POST /tasks/parse has status open, whatever the request body contains.
C18_CreatedOpen ==
    /\ Created => resp.body[1].status = "open"
    /\ \A k \in 1..Len(dump.created) : dump.created[k].task.status = "open"

\* every row there is: committed, or inserted in the open transaction
AllRows == tasks \o dump.rows

\* a 200 that carries the task a PATCH has just updated
Mutated == resp.status = 200 /\ resp.kind \in {"task", "row"}

\* C19: a successful PATCH /tasks/:id or PATCH /tasks/:id/complete sets the
\* task's updated_at to the time of the request; no step changes the id or
\* the created_at of a row that exists; created_at <= updated_at always.
C19_Timestamps ==
    /\ [](\A k \in 1..Len(AllRows) :
              AllRows[k].created_at <= AllRows[k].updated_at)
    /\ [](Mutated =>
              \A k \in 1..Len(tasks) :
                  tasks[k].id = resp.body[1].id
                      => tasks[k].updated_at = resp.at)
    /\ [][\A k \in 1..Len(AllRows') :
              \/ AllRows'[k].id >= nextId
              \/ \E j \in 1..Len(AllRows) :
                    /\ AllRows[j].id = AllRows'[k].id
                    /\ AllRows[j].created_at = AllRows'[k].created_at]_vars

\* a PATCH /tasks/:id answered after the clock moved on since the insert
C19_Witness ==
    /\ Mutated
    /\ server = "v1"
    /\ \E k \in 1..Len(tasks) :
          /\ tasks[k].id = resp.body[1].id
          /\ tasks[k].created_at < tasks[k].updated_at
          /\ tasks[k].updated_at = resp.at

\* t comes before u in the order (priority ascending, due_date ascending
\* with no due date last, created_at ascending)
RankedBefore(t, u) ==
    \/ t.priority < u.priority
    \/ /\ t.priority = u.priority
       /\ \/ t.due_date.t = "date" /\ u.due_date.t # "date"
          \/ /\ t.due_date.t = "date" /\ u.due_date.t = "date"
             /\ t.due_date.v < u.due_date.v
          \/ /\ t.due_date = u.due_date
             /\ t.created_at < u.created_at

\* C12: in the list returned, among tasks with the same completion state and
\* the same bucket the order is lexicographic on (priority ascending,
\* due_date ascending with every task without a due date after all that have
\* one, created_at ascending).
C12_OrderWithinBucket ==
    Listed =>
        \A i, j \in 1..Len(resp.body) :
            (/\ (resp.body[i].status = "done") = (resp.body[j].status = "done")
             /\ resp.body[i].bucket = resp.body[j].bucket
             /\ RankedBefore(resp.body[i], resp.body[j]))
                => i < j

----------------------------------------------------------------------------
(* The second server with all its task routes and POST /brain-dump, at one *)
(* instant of the clock: no route reads the clock to decide a status       *)

NextApi ==
    \/ \E body \in ServersBodies : PostTask(body)
    \/ \E req \in ServersRequests : DumpBegin(req)
    \/ DumpStep
    \/ DumpCommit
    \/ \E id \in IdParams : CompleteTask(id)
    \/ \E id \in IdParams : DeleteTask(id)
    \/ GetTasks

SpecApi == Init /\ [][NextApi]_vars

\* C21: under POST /tasks, POST /brain-dump, PATCH /tasks/:id/complete,
\* DELETE /tasks/:id and GET /tasks of the second server, a task whose
\* status is done is done after every step that keeps it (completing it
\* again included): it stays done until it is deleted.
C21_DoneStaysDone ==
    [][\A k \in 1..Len(tasks) : \A j \in 1..Len(tasks') :
          (tasks[k].status = "done" /\ tasks'[j].id = tasks[k].id)
              => tasks'[j].status = "done"]_vars

\* a completed task that a later GET /tasks returned as done, next to a
\* task created after it
C21_Witness ==
    /\ Listed
    /\ \E i, j \in 1..Len(resp.body) :
          /\ resp.body[i].status = "done"
          /\ resp.body[j].status = "open"
          /\ resp.body[i].id < resp.body[j].id

\* the places in the table of the task a path segment names: none
\* unless the segment is an integer
Named(raw) ==
    IF raw # <<>> /\ \A k \in 1..Len(raw) : IsDigit(raw[k])
    THEN {k \in 1..Len(tasks) : tasks[k].id = DecimalValue(raw)}
    ELSE {}

\* what the claim allows a PATCH /tasks/<raw>/complete to do
CompleteFrame(raw) ==
    IF Named(raw) = {}
    THEN tasks' = tasks /\ resp'.status \in {400, 404}
    ELSE /\ Len(tasks') = Len(tasks)
         /\ \A k \in 1..Len(tasks) :
               IF k \in Named(raw)
               THEN tasks'[k] = [tasks[k] EXCEPT
                                    !.status = "done",
                                    !.updated_at = tasks'[k].updated_at]
               ELSE tasks'[k] = tasks[k]

\* what the claim allows a DELETE /tasks/<raw> to do
DeleteFrame(raw) ==
    IF Named(raw) = {}
    THEN tasks' = tasks /\ resp'.status \in {400, 404}
    ELSE tasks' = SelectSeq(tasks, LAMBDA r : r.id # DecimalValue(raw))

\* C22: PATCH /tasks/:id/complete changes only status and updated_at of the
\* task with that id, and nothing of any other task; DELETE /tasks/:id
\* removes exactly the task with that id; when no task has the id, or the id
\* is not an integer, either answers 400 or 404 and leaves the store as it
\* was (second server of index.js and unnamed/part_000).
C22_CompleteDeleteFrame ==
    [][\A raw \in PathParams :
          /\ (server = "v2" /\ CompleteTask(NumberOf(raw)))
                => CompleteFrame(raw)
          /\ (server = "v2" /\ DeleteTask(NumberOf(raw)))
                => DeleteFrame(raw)
          /\ CompleteTaskP(parseInt10(raw)) => CompleteFrame(raw)
          /\ DeleteTaskP(parseInt10(raw)) => DeleteFrame(raw)]_vars

====
